---- MODULE Spec2Model ----
(***************************************************************************)
(* Weekly school-timetable service: one generate_schedule request, from    *)
(* validation through model build, solve, extraction, augmentation and     *)
(* response shaping (src/functions/main.py, src/school_scheduler.py).      *)
(*                                                                         *)
(* Teacher ids and grade labels are the strings the code uses; teachers,   *)
(* grades, days and hours are iterated by their 1-based position in the    *)
(* lists get_inputs derives.  Grade labels of one request are distinct.    *)
(***************************************************************************)
EXTENDS Integers, Sequences, FiniteSets, TLC

\* ---------------------------------------------------------------- bounds
MaxTeachers == 2
MaxGrades == 2
MaxDays == 2
MaxHours == 4
MaxPEPeriods == 2
\* budget on n_teachers * |grades| * days_per_week * n_hours of one request
MaxCells == 16
\* the same budget for a request that enables the PE constraints
MaxPECells == 8
\* the same budget for a request of the start_hour sweep
MaxViewCells == 6
\* the same budget for a request with an option outside its bounds
MaxBoundsCells == 6
\* the same budget for a request that carries PE options with PE constraints off
MaxPEOffCells == 6
\* largest max_calls and time_window of a RateLimiter, last clock tick, and most
\* record_call() of one run
MaxCallsLimit == 2
MaxWindow == 2
MaxTime == 4
MaxRecordedCalls == 3
\* largest ChatConfig.max_retries
MaxRetries == 3

\* ------------------------------------------------------ program constants
\* hard-coded homeroom hours of the augmenter
FIRST_CHECK_HOUR == 1
LAST_CHECK_HOUR == 8
DEFAULT_START_HOUR == 8

\* f"T{i+1}" for i in range(n_teachers)
TeacherIds ==
  <<"T1", "T2", "T3", "T4", "T5", "T6", "T7", "T8", "T9", "T10", "T11", "T12", "T13">>

\* the teacher id the augmenter skips
HARDCODED_PE_TEACHER == "T13"

GradeLabels == <<"P1", "P2", "P3", "P4", "P5", "P6", "M1", "M2", "M3">>

DayNameList == <<"Mon", "Tue", "Wed", "Thu", "Fri", "Sat", "Sun">>

Digits == <<"0", "1", "2", "3", "4", "5", "6", "7", "8", "9">>

\* None of Python, for a table that was never produced
None == <<[none |-> TRUE]>>

\* ------------------------------------------------------ derived parameters
\* get_inputs: the convenience lists derived from the options
Teachers(p) == [i \in 1..p.n_teachers |-> TeacherIds[i]]
TeacherSet(p) == {TeacherIds[i] : i \in 1..p.n_teachers}
GradeSet(p) == {p.grades[i] : i \in 1..Len(p.grades)}
Days(p) == 1..p.days_per_week
Hours(p) == 1..p.n_hours
TeachingHours(p) == {h \in Hours(p) : h # p.lunch_hour}
NonPEGrades(p) == {g \in GradeSet(p) : g \notin p.pe_grades}

\* f"{n:02d}" as a sequence of characters
Fmt02(n) ==
  IF n < 10 THEN <<"0", Digits[n + 1]>>
  ELSE IF n < 100 THEN <<Digits[(n \div 10) + 1], Digits[(n % 10) + 1]>>
  ELSE <<Digits[(n \div 100) + 1], Digits[((n \div 10) % 10) + 1], Digits[(n % 10) + 1]>>

\* TimeSlotLabel counting from the default start hour (a faulty variant)
TimeSlotLabel_FromDefault(start_hour, h) ==
  Fmt02(DEFAULT_START_HOUR + h - 1) \o <<":", "0", "0", "-">>
    \o Fmt02(DEFAULT_START_HOUR + h) \o <<":", "0", "0">>

\* f"{start_hour + h - 1:02d}:00-{start_hour + h:02d}:00"
TimeSlotLabel(start_hour, h) ==
  Fmt02(start_hour + h - 1) \o <<":", "0", "0", "-">> \o Fmt02(start_hour + h) \o <<":", "0", "0">>

\* ------------------------------------------------------------ the request
VARIABLES
  pc,                  \* position in generate_schedule
  data,                \* the request's option set (defaults filled in)
  SCHEDULER_AVAILABLE, \* outcome of importing the scheduler module, fixed when the request reads it
  xvars,               \* keys of the x decision variables
  hrvars,              \* keys of the homeroom_grade decision variables
  model,               \* scheduler.model
  status,              \* status of solver.Solve
  xval,                \* keys of x the solver set to 1
  hrval,               \* keys of homeroom_grade the solver set to 1
  schedule_df,         \* scheduler.schedule_df
  homeroom_df,         \* scheduler.homeroom_df
  extended_schedule,   \* scheduler.extended_schedule
  response             \* the response sent, once pc = "done"

\* the state of one ChatGPTWrapper: its RateLimiter, the clock, and the call in progress
VARIABLES
  max_calls,           \* RateLimiter.max_calls
  time_window,         \* RateLimiter.time_window, in clock ticks
  calls,               \* RateLimiter.calls: the recorded call times it still holds
  now,                 \* time.time(), in clock ticks
  call_log,            \* the time of every record_call() so far (history)
  answer,              \* what the latest can_proceed() returned, "NONE" once time or calls moved on
  max_retries,         \* ChatConfig.max_retries
  attempt,             \* the attempt argument of the running _make_api_call
  api_calls,           \* how many times client.chat.completions.create was called (history)
  api_failures,        \* how many of those calls raised (history)
  last_error,          \* the kind of the exception the latest call raised
  api_response,        \* what the outermost _make_api_call returned
  wpc,                 \* position in chat_with_gpt
  chat_result          \* what chat_with_gpt returned

scheduler_vars ==
  <<pc, data, SCHEDULER_AVAILABLE, xvars, hrvars, model, status, xval, hrval,
    schedule_df, homeroom_df, extended_schedule, response>>

limiter_vars == <<max_calls, time_window, calls, now, call_log, answer>>

call_vars ==
  <<max_retries, attempt, api_calls, api_failures, last_error, api_response, wpc,
    chat_result>>

wrapper_vars == <<limiter_vars, call_vars>>

vars == <<scheduler_vars, wrapper_vars>>

MAX_TEACHERS == 50
MAX_GRADES == 20
MAX_HOURS_PER_DAY == 12
MAX_DAYS_PER_WEEK == 7
MAX_START_HOUR == 23
MAX_HOMEROOM_MODE == 2

DEFAULT_PE_GRADES == {"P4", "P5", "P6", "M1", "M2", "M3"}
DEFAULT_PE_DAY == 3
DEFAULT_N_PE_PERIODS == 6

\* ------------------------------------------------------------ validation
\* validate_schedule_request: the message of the first failing rule, "" if none
ValidationError(d) ==
  IF d.n_teachers <= 0 \/ d.n_teachers > MAX_TEACHERS
    THEN "n_teachers must be between 1 and MAX_TEACHERS"
  ELSE IF Len(d.grades) = 0 THEN "grades must be a non-empty list"
  ELSE IF Len(d.grades) > MAX_GRADES THEN "grades list cannot exceed MAX_GRADES items"
  ELSE IF d.lunch_hour > d.n_hours THEN "lunch_hour must be between 1 and n_hours"
  ELSE ""

\* ScheduleRequest: the bounds declared for the numeric options
ScheduleRequestBounds(d) ==
  /\ d.pe_day >= 1 /\ d.pe_day <= MAX_DAYS_PER_WEEK
  /\ d.n_pe_periods >= 0
  /\ d.start_hour >= 0 /\ d.start_hour <= MAX_START_HOUR
  /\ d.n_hours >= 1 /\ d.n_hours <= MAX_HOURS_PER_DAY
  /\ d.lunch_hour >= 1
  /\ d.days_per_week >= 1 /\ d.days_per_week <= MAX_DAYS_PER_WEEK
  /\ d.homeroom_mode >= 0 /\ d.homeroom_mode <= MAX_HOMEROOM_MODE

\* create_response
CreateResponse(success, message, error, status_code, schedule, homeroom, total, n_homeroom) ==
  [success |-> success, message |-> message, error |-> error, status_code |-> status_code,
   schedule |-> schedule, homeroom |-> homeroom,
   total_assignments |-> total, homeroom_assignments |-> n_homeroom]

\* the error field of a response built without error=...
NoError == "None"

\* create_response(success=False, message=..., error=..., status_code=...): data stays None
ErrorResponse(message, error, status_code) ==
  CreateResponse(FALSE, message, error, status_code, None, None, 0, 0)

NoResponse == [success |-> FALSE, message |-> "", error |-> NoError, status_code |-> 0,
               schedule |-> None, homeroom |-> None,
               total_assignments |-> 0, homeroom_assignments |-> 0]

\* --------------------------------------------------------- model builder
\* XKeys with the lunch-hour test missing (a faulty variant)
XKeys_WithLunch(p) ==
  TeacherSet(p) \X GradeSet(p) \X Days(p) \X Hours(p)

\* get_model: one x variable per (t, g, d, h) with h # lunch_hour
XKeys(p) ==
  {k \in TeacherSet(p) \X GradeSet(p) \X Days(p) \X Hours(p) : k[4] # p.lunch_hour}

\* get_model: one homeroom_grade variable per (t, g) when homeroom_mode > 0
HRKeys(p) ==
  IF p.homeroom_mode > 0 THEN TeacherSet(p) \X GradeSet(p) ELSE {}

\* sum(x[k] for k in K) under the assignment that sets exactly the keys of X to 1
Sum(X, K) == Cardinality(X \cap K)

\* CoverageAt with ">= 1" in place of "== 1" (a faulty variant)
CoverageAt_AtLeastOne(p, X, g, d, h) ==
  Sum(X, {<<t, g, d, h>> : t \in TeacherSet(p)}) >= 1

\* sum(x[t, g, d, h] for t in teachers) == 1
CoverageAt(p, X, g, d, h) ==
  Sum(X, {<<t, g, d, h>> : t \in TeacherSet(p)}) = 1

Coverage(p, X) ==
  \A g \in GradeSet(p), d \in Days(p), h \in TeachingHours(p) : CoverageAt(p, X, g, d, h)

\* SingleRoomAt with the number of grades as the bound (a faulty variant)
SingleRoomAt_AllGrades(p, X, t, d, h) ==
  Sum(X, {<<t, g, d, h>> : g \in GradeSet(p)}) <= Cardinality(GradeSet(p))

\* sum(x[t, g, d, h] for g in grades) <= 1
SingleRoomAt(p, X, t, d, h) ==
  Sum(X, {<<t, g, d, h>> : g \in GradeSet(p)}) <= 1

SingleRoom(p, X) ==
  \A t \in TeacherSet(p), d \in Days(p), h \in TeachingHours(p) : SingleRoomAt(p, X, t, d, h)

\* each teacher homeroom of at most one grade, each grade at least one
HomeroomCount(p, HR) ==
  p.homeroom_mode > 0 =>
    /\ \A t \in TeacherSet(p) : Cardinality({g \in GradeSet(p) : <<t, g>> \in HR}) <= 1
    /\ \A g \in GradeSet(p) : Cardinality({t \in TeacherSet(p) : <<t, g>> \in HR}) >= 1

\* the hours the builder anchors to the homeroom teacher
ModelAnchorHours(p) ==
  IF p.homeroom_mode = 2 THEN {1, p.n_hours}
  ELSE IF p.homeroom_mode = 1 THEN {p.n_hours}
  ELSE {}

\* x[t, g, d, h] <= homeroom_grade[t, g] at the anchored hours
HomeroomAnchor(p, X, HR) ==
  p.homeroom_mode > 0 =>
    \A t \in TeacherSet(p), g \in GradeSet(p), d \in Days(p), h \in ModelAnchorHours(p) :
      <<t, g, d, h>> \in X => <<t, g>> \in HR

\* sum(x[t, g, d, h] for t in teachers) >= 1 at the anchored hours
HomeroomCover(p, X) ==
  p.homeroom_mode > 0 =>
    \A g \in GradeSet(p), d \in Days(p), h \in ModelAnchorHours(p) :
      Sum(X, {<<t, g, d, h>> : t \in TeacherSet(p)}) >= 1

\* PEPosted without the enable_pe_constraints test (a faulty variant)
PEPosted_IgnoresSwitch(p) == p.n_pe_periods > 0

\* the guard of the PE block
PEPosted(p) == p.enable_pe_constraints /\ p.n_pe_periods > 0

\* each PE grade exactly once with pe_teacher on pe_day
PEPerGrade(p, X) ==
  \A g \in p.pe_grades :
    Sum(X, {<<p.pe_teacher, g, p.pe_day, h>> : h \in TeachingHours(p)}) = 1

\* pe_teacher never teaches a non-PE grade
PENonPEGrades(p, X) ==
  \A g \in NonPEGrades(p) :
    Sum(X, {<<p.pe_teacher, g, d, h>> : d \in Days(p), h \in TeachingHours(p)}) = 0

\* total weekly load of pe_teacher
PETotal(p, X) ==
  Sum(X, {<<p.pe_teacher, g, d, h>> :
            g \in GradeSet(p), d \in Days(p), h \in TeachingHours(p)}) = p.n_pe_periods

PEConstraints(p, X) ==
  PEPosted(p) => PEPerGrade(p, X) /\ PENonPEGrades(p, X) /\ PETotal(p, X)

\* NoConsecutive with the last pair of hours left out (a faulty variant)
NoConsecutive_ShortRange(p, X) ==
  \A t \in TeacherSet(p), g \in GradeSet(p), d \in Days(p), h \in 1..(p.n_hours - 2) :
    (h # p.lunch_hour /\ h + 1 # p.lunch_hour) =>
      ~(<<t, g, d, h>> \in X /\ <<t, g, d, h + 1>> \in X)

\* x[t, g, d, h] + x[t, g, d, h + 1] <= 1 where neither hour is lunch
NoConsecutive(p, X) ==
  \A t \in TeacherSet(p), g \in GradeSet(p), d \in Days(p), h \in 1..(p.n_hours - 1) :
    (h # p.lunch_hour /\ h + 1 # p.lunch_hour) =>
      ~(<<t, g, d, h>> \in X /\ <<t, g, d, h + 1>> \in X)

\* the x keys the constraints of _add_constraints look up
ReferencedKeys(p) ==
  (IF p.homeroom_mode > 0
     THEN TeacherSet(p) \X GradeSet(p) \X Days(p) \X ModelAnchorHours(p)
     ELSE {})
  \cup
  (IF PEPosted(p)
     THEN ({p.pe_teacher} \X p.pe_grades \X {p.pe_day} \X TeachingHours(p))
          \cup ({p.pe_teacher} \X GradeSet(p) \X Days(p) \X TeachingHours(p))
     ELSE {})

\* _add_constraints raises KeyError when it looks up an x variable that was not created
BuildRaises(p) == ~(ReferencedKeys(p) \subseteq XKeys(p))

\* ---------------------------------------------------------------- solver
\* solver.Solve returns any assignment that meets every posted constraint (OPTIMAL;
\* the model has no objective), INFEASIBLE when there is none, or UNKNOWN when the
\* time budget runs out.  The assignments are enumerated slot by slot: the coverage
\* and single-room constraints each read one (day, hour) slot only.
\* An assignment of one (day, hour) slot, as a set of (teacher, grade) pairs
Lift(s, d, h) == {<<k[1], k[2], d, h>> : k \in s}

\* slot assignments that meet the two constraints posted per slot
SlotCandidates(p) ==
  {s \in SUBSET (TeacherSet(p) \X GradeSet(p)) :
     \A d \in Days(p), h \in TeachingHours(p) :
       /\ \A g \in GradeSet(p) : CoverageAt(p, Lift(s, d, h), g, d, h)
       /\ \A t \in TeacherSet(p) : SingleRoomAt(p, Lift(s, d, h), t, d, h)}

\* every assignment of x that meets the per-slot constraints in every slot
Candidates(p) ==
  {UNION {Lift(f[sl], sl[1], sl[2]) : sl \in Days(p) \X TeachingHours(p)} :
     f \in [Days(p) \X TeachingHours(p) -> SlotCandidates(p)]}

\* all constraints of the model that read x only
XConstraints(p, X) ==
  /\ Coverage(p, X)
  /\ SingleRoom(p, X)
  /\ HomeroomCover(p, X)
  /\ PEConstraints(p, X)
  /\ NoConsecutive(p, X)

\* the satisfying assignments of the model: <<x, homeroom_grade>>
Solutions(p) ==
  {s \in {X \in Candidates(p) : XConstraints(p, X)}
           \X {HR \in SUBSET HRKeys(p) : HomeroomCount(p, HR)} :
     HomeroomAnchor(p, s[1], s[2])}

\* ------------------------------------------------------------- extractor
NT(p) == p.n_teachers
NG(p) == Len(p.grades)
ND(p) == p.days_per_week
NH(p) == p.n_hours

\* the i-th (t, g, d, h) of: for t in teachers, for g in grades, for d in days, for h in hours
KeyAt(p, i) ==
  LET j == i - 1
  IN <<TeacherIds[(j \div (NG(p) * ND(p) * NH(p))) + 1],
       p.grades[((j \div (ND(p) * NH(p))) % NG(p)) + 1],
       ((j \div NH(p)) % ND(p)) + 1,
       (j % NH(p)) + 1>>

\* one row of the schedule table
Row(p, t, g, d, h) ==
  [Teacher |-> t, Grade |-> g, Day |-> d, Hour |-> h,
   DayName |-> DayNameList[d], TimeSlot |-> TimeSlotLabel(p.start_hour, h)]

\* get_solution: the teaching records, in loop order
ScheduleRows(p, X) ==
  LET all == [i \in 1..(NT(p) * NG(p) * ND(p) * NH(p)) |-> KeyAt(p, i)]
      Taken(k) == k[4] # p.lunch_hour /\ k \in X
      sel == SelectSeq(all, Taken)
  IN [i \in 1..Len(sel) |-> Row(p, sel[i][1], sel[i][2], sel[i][3], sel[i][4])]

\* the i-th (t, g) of: for t in teachers, for g in grades
PairAt(p, i) ==
  <<TeacherIds[((i - 1) \div NG(p)) + 1], p.grades[((i - 1) % NG(p)) + 1]>>

\* the homeroom records with value 1, skipping one teacher id, in loop order
HomeroomRows(p, HR, skip) ==
  LET all == [i \in 1..(NT(p) * NG(p)) |-> PairAt(p, i)]
      Taken(k) == k[1] # skip /\ k \in HR
      sel == SelectSeq(all, Taken)
  IN [i \in 1..Len(sel) |-> [Teacher |-> sel[i][1], Grade |-> sel[i][2]]]

\* homeroom_grade[t, g] raises KeyError when the variable was not created
HomeroomLookupRaises(p, keys, skip) ==
  \E t \in TeacherSet(p), g \in GradeSet(p) : t # skip /\ <<t, g>> \notin keys

\* ------------------------------------------------------------- augmenter
\* check_hours of the augmenter
CheckHours(p) ==
  IF p.homeroom_mode = 2 THEN <<FIRST_CHECK_HOUR, LAST_CHECK_HOUR>>
  ELSE IF p.homeroom_mode = 1 THEN <<LAST_CHECK_HOUR>>
  ELSE <<>>

\* any((Teacher == t) & (Grade == g) & (Day == d) & (Hour == h))
HasRow(sched, t, g, d, h) ==
  \E i \in 1..Len(sched) :
    /\ sched[i].Teacher = t
    /\ sched[i].Grade = g
    /\ sched[i].Day = d
    /\ sched[i].Hour = h

\* NewRows without the test for an existing row (a faulty variant)
NewRows_Unchecked(p, ha, sched) ==
  LET ch == CheckHours(p)
      n == Len(ha) * ND(p) * Len(ch)
      At(i) ==
        LET j == i - 1
            a == ha[(j \div (ND(p) * Len(ch))) + 1]
            d == ((j \div Len(ch)) % ND(p)) + 1
            h == ch[(j % Len(ch)) + 1]
        IN [Teacher |-> a.Teacher, Grade |-> a.Grade, Day |-> d, Hour |-> h,
            DayName |-> DayNameList[d], TimeSlot |-> TimeSlotLabel(p.start_hour, h),
            IsHomeroom |-> "Yes"]
  IN [i \in 1..n |-> At(i)]

\* the rows for homeroom duties missing from the schedule, in loop order
NewRows(p, ha, sched) ==
  LET ch == CheckHours(p)
      n == Len(ha) * ND(p) * Len(ch)
      At(i) ==
        LET j == i - 1
            a == ha[(j \div (ND(p) * Len(ch))) + 1]
            d == ((j \div Len(ch)) % ND(p)) + 1
            h == ch[(j % Len(ch)) + 1]
        IN [Teacher |-> a.Teacher, Grade |-> a.Grade, Day |-> d, Hour |-> h,
            DayName |-> DayNameList[d], TimeSlot |-> TimeSlotLabel(p.start_hour, h),
            IsHomeroom |-> "Yes"]
      all == [i \in 1..n |-> At(i)]
      Missing(r) == ~HasRow(sched, r.Teacher, r.Grade, r.Day, r.Hour)
  IN SelectSeq(all, Missing)

\* IsHomeroomFlag testing the first check hour only (a faulty variant)
IsHomeroomFlag_FirstOnly(ha, r) ==
  IF /\ r.Hour = FIRST_CHECK_HOUR
     /\ \E i \in 1..Len(ha) : ha[i].Teacher = r.Teacher /\ ha[i].Grade = r.Grade
  THEN "Yes" ELSE "No"

\* the IsHomeroom value of an existing row
IsHomeroomFlag(ha, r) ==
  IF /\ r.Hour \in {FIRST_CHECK_HOUR, LAST_CHECK_HOUR}
     /\ \E i \in 1..Len(ha) : ha[i].Teacher = r.Teacher /\ ha[i].Grade = r.Grade
  THEN "Yes" ELSE "No"

\* the existing rows with their IsHomeroom column
FlaggedRows(ha, sched) ==
  [i \in 1..Len(sched) |->
     [Teacher |-> sched[i].Teacher, Grade |-> sched[i].Grade, Day |-> sched[i].Day,
      Hour |-> sched[i].Hour, DayName |-> sched[i].DayName,
      TimeSlot |-> sched[i].TimeSlot, IsHomeroom |-> IsHomeroomFlag(ha, sched[i])]]

\* the augmented schedule: flagged rows followed by the new rows
Augment(p, ha, sched) == FlaggedRows(ha, sched) \o NewRows(p, ha, sched)

\* extended_schedule["Teacher"] raises KeyError on a table without rows
AugmentRaises(p, ha, sched) ==
  Len(sched) = 0 /\ Len(ha) * ND(p) * Len(CheckHours(p)) > 0

\* ----------------------------------------------------------- view shaper
\* item["TimeSlot"].split("-")[0]
SplitFirst(label) ==
  LET dashes == {i \in 1..Len(label) : label[i] = "-"}
  IN IF dashes = {} THEN label
     ELSE SubSeq(label, 1, (CHOOSE i \in dashes : \A j \in dashes : i <= j) - 1)

\* format_schedule_data: the response rows of a schedule table
FormatSchedule(df) ==
  IF df = None THEN <<>>
  ELSE [i \in 1..Len(df) |->
          [subject |-> df[i].Grade, grade |-> df[i].Grade, teacher |-> df[i].Teacher,
           day |-> df[i].DayName, period |-> df[i].Hour,
           time |-> SplitFirst(df[i].TimeSlot), timeslot |-> df[i].TimeSlot,
           duration |-> 1]]

\* format_schedule_data: the homeroom records of the response
FormatHomeroom(df) == IF df = None THEN <<>> ELSE df

\* --------------------------------------------------------------- requests
\* PE options of a request that leaves them to DEFAULT_SCHEDULE_PARAMS
DefaultPE ==
  [pe_grades : {DEFAULT_PE_GRADES}, pe_day : {DEFAULT_PE_DAY},
   n_pe_periods : {DEFAULT_N_PE_PERIODS}]

\* PE options a request that enables PE may carry
ChosenPE ==
  [pe_grades : SUBSET {GradeLabels[i] : i \in 1..MaxGrades},
   pe_day : 1..MaxDays,
   n_pe_periods : 0..MaxPEPeriods]

MakeRequest(b, pe, enable) ==
  [n_teachers |-> b.n_teachers, grades |-> b.grades, pe_teacher |-> b.pe_teacher,
   pe_grades |-> pe.pe_grades, pe_day |-> pe.pe_day, n_pe_periods |-> pe.n_pe_periods,
   start_hour |-> DEFAULT_START_HOUR, n_hours |-> b.n_hours, lunch_hour |-> b.lunch_hour,
   days_per_week |-> b.days_per_week, enable_pe_constraints |-> enable,
   homeroom_mode |-> b.homeroom_mode]

Cells(b) == b.n_teachers * Len(b.grades) * b.days_per_week * b.n_hours

BaseOptions ==
  {b \in [n_teachers : 1..MaxTeachers,
          grades : {SubSeq(GradeLabels, 1, n) : n \in 1..MaxGrades},
          pe_teacher : {TeacherIds[i] : i \in 1..MaxTeachers} \cup {HARDCODED_PE_TEACHER},
          n_hours : 1..MaxHours,
          lunch_hour : 1..(MaxHours + 1),
          days_per_week : 1..MaxDays,
          homeroom_mode : 0..2] :
     /\ b.lunch_hour <= b.n_hours + 1
     /\ Cells(b) <= MaxCells}

\* requests with PE constraints off that differ in start_hour
ViewRequests ==
  {[MakeRequest(b, pe, FALSE) EXCEPT !.start_hour = sh] :
     b \in {o \in BaseOptions : Cells(o) <= MaxViewCells
                                /\ o.pe_teacher = HARDCODED_PE_TEACHER},
     pe \in DefaultPE,
     sh \in 0..MAX_START_HOUR}

\* requests with PE constraints off and one numeric option outside its declared bounds
OutOfBoundsRequests ==
  LET base == {MakeRequest(b, pe, FALSE) :
                 b \in {o \in BaseOptions : /\ Cells(o) <= MaxBoundsCells
                                            /\ o.pe_teacher = HARDCODED_PE_TEACHER
                                            /\ o.lunch_hour <= o.n_hours},
                 pe \in DefaultPE}
  IN UNION {{[r EXCEPT !.lunch_hour = 0],
             [r EXCEPT !.lunch_hour = -1],
             [r EXCEPT !.n_pe_periods = -1],
             [r EXCEPT !.homeroom_mode = MAX_HOMEROOM_MODE + 1],
             [r EXCEPT !.pe_day = 0],
             [r EXCEPT !.pe_day = MAX_DAYS_PER_WEEK + 1],
             [r EXCEPT !.start_hour = MAX_START_HOUR + 1],
             [r EXCEPT !.days_per_week = MAX_DAYS_PER_WEEK + 1]} : r \in base}

\* requests with PE constraints off that differ in the PE options
PEOffRequests ==
  {MakeRequest(b, pe, FALSE) :
     b \in {o \in BaseOptions : Cells(o) <= MaxPEOffCells},
     pe \in ChosenPE \cup DefaultPE}

\* the requests the model sends
Requests ==
  {MakeRequest(b, pe, FALSE) : b \in BaseOptions, pe \in DefaultPE}
  \cup {MakeRequest(b, pe, TRUE) :
          b \in {o \in BaseOptions : Cells(o) <= MaxPECells}, pe \in ChosenPE}

\* -------------------------------------------------------------- behaviour
\* no ChatGPTWrapper was created
WrapperIdle ==
  /\ max_calls = 0
  /\ time_window = 0
  /\ calls = <<>>
  /\ now = 0
  /\ call_log = <<>>
  /\ answer = "NONE"
  /\ max_retries = 0
  /\ attempt = 0
  /\ api_calls = 0
  /\ api_failures = 0
  /\ last_error = "None"
  /\ api_response = "None"
  /\ wpc = "idle"
  /\ chat_result = "None"

InitWith(requests) ==
  /\ WrapperIdle
  /\ data \in requests
  /\ SCHEDULER_AVAILABLE = TRUE
  /\ pc = "validate"
  /\ xvars = {}
  /\ hrvars = {}
  /\ model = "None"
  /\ status = "NONE"
  /\ xval = {}
  /\ hrval = {}
  /\ schedule_df = None
  /\ homeroom_df = None
  /\ extended_schedule = None
  /\ response = NoResponse

Init == InitWith(Requests)

Respond(r) == pc' = "done" /\ response' = r

\* ValidateRequest going on to the scheduler after a validation error (a faulty variant)
ValidateRequest_KeepsGoing ==
  /\ pc = "validate"
  /\ UNCHANGED wrapper_vars
  /\ pc' = "scheduler"
  /\ IF ValidationError(data) # ""
       THEN response' = ErrorResponse("Validation failed", ValidationError(data), 400)
       ELSE UNCHANGED response
  /\ UNCHANGED <<data, SCHEDULER_AVAILABLE, xvars, hrvars, model, status, xval, hrval,
                 schedule_df, homeroom_df, extended_schedule>>

\* generate_schedule: validate_schedule_request and the 400 response
ValidateRequest ==
  /\ pc = "validate"
  /\ UNCHANGED wrapper_vars
  /\ IF ValidationError(data) # ""
       THEN Respond(ErrorResponse("Validation failed", ValidationError(data), 400))
       ELSE pc' = "scheduler" /\ UNCHANGED response
  /\ UNCHANGED <<data, SCHEDULER_AVAILABLE, xvars, hrvars, model, status, xval, hrval,
                 schedule_df, homeroom_df, extended_schedule>>

\* generate_schedule: SCHEDULER_AVAILABLE, SchoolScheduler(), set_homeroom_mode, get_inputs
CreateScheduler ==
  /\ pc = "scheduler"
  /\ UNCHANGED wrapper_vars
  /\ SCHEDULER_AVAILABLE' \in BOOLEAN
  /\ IF ~SCHEDULER_AVAILABLE'
       THEN Respond(ErrorResponse("Service unavailable", "SchoolScheduler module not available", 500))
     ELSE IF data.homeroom_mode \notin {0, 1, 2}
       THEN Respond(ErrorResponse("Schedule generation failed",
                                  "Schedule generation failed: AssertionError", 500))
     ELSE IF data.days_per_week > Len(DayNameList)
       THEN Respond(ErrorResponse("Initialization failed",
                                  "Failed to initialize scheduler inputs", 500))
     ELSE pc' = "model" /\ UNCHANGED response
  /\ UNCHANGED <<data, xvars, hrvars, model, status, xval, hrval,
                 schedule_df, homeroom_df, extended_schedule>>

\* SchoolScheduler.get_model, and the 500 response when it raises
GetModel ==
  /\ pc = "model"
  /\ UNCHANGED wrapper_vars
  /\ xvars' = XKeys(data)
  /\ hrvars' = HRKeys(data)
  /\ IF BuildRaises(data)
       THEN /\ Respond(ErrorResponse("Schedule generation failed",
                                 "Schedule generation failed: KeyError", 500))
            /\ UNCHANGED model
       ELSE /\ pc' = "solve"
            /\ model' = "built"
            /\ UNCHANGED response
  /\ UNCHANGED <<data, SCHEDULER_AVAILABLE, status, xval, hrval,
                 schedule_df, homeroom_df, extended_schedule>>

\* NoSolutionResponse carrying the rows get_solution had produced (a faulty variant)
NoSolutionResponse_WithPartial ==
  CreateResponse(FALSE, "No solution found",
                 "No feasible solution found for the given constraints", 422,
                 FormatSchedule(schedule_df'), None, 0, 0)

\* get_solution returned False: the 422 response
NoSolutionResponse ==
  ErrorResponse("No solution found",
                "No feasible solution found for the given constraints", 422)

\* SolveFails leaving empty tables behind and reporting them (a faulty variant)
SolveFails_EmptyTables(st) ==
  /\ status' = st
  /\ schedule_df' = <<>>
  /\ homeroom_df' = <<>>
  /\ extended_schedule' = <<>>
  /\ UNCHANGED <<xval, hrval>>
  /\ pc' = "format"
  /\ UNCHANGED response

\* SchoolScheduler.get_solution after a status that is neither OPTIMAL nor FEASIBLE
SolveFails(st) ==
  /\ status' = st
  /\ UNCHANGED <<xval, hrval, schedule_df, homeroom_df, extended_schedule>>
  /\ Respond(NoSolutionResponse)

\* SchoolScheduler.get_solution after the solver found the assignment <<X, HR>>
SolveFinds(X, HR) ==
  LET sched == ScheduleRows(data, X)
      ha == HomeroomRows(data, HR, HARDCODED_PE_TEACHER)
  IN /\ status' = "OPTIMAL"
     /\ xval' = X
     /\ hrval' = HR
     /\ schedule_df' = sched
     /\ IF HomeroomLookupRaises(data, hrvars, data.pe_teacher)
          THEN /\ UNCHANGED <<homeroom_df, extended_schedule>>
               /\ Respond(NoSolutionResponse)
        ELSE IF HomeroomLookupRaises(data, hrvars, HARDCODED_PE_TEACHER)
          THEN /\ homeroom_df' = HomeroomRows(data, HR, data.pe_teacher)
               /\ UNCHANGED extended_schedule
               /\ Respond(NoSolutionResponse)
        ELSE IF AugmentRaises(data, ha, sched)
          THEN /\ homeroom_df' = HomeroomRows(data, HR, data.pe_teacher)
               /\ extended_schedule' = sched
               /\ Respond(NoSolutionResponse)
        ELSE /\ homeroom_df' = HomeroomRows(data, HR, data.pe_teacher)
             /\ extended_schedule' = Augment(data, ha, sched)
             /\ pc' = "format"
             /\ UNCHANGED response

\* SchoolScheduler.get_solution, and the 422 response when it returns False
GetSolution ==
  /\ pc = "solve"
  /\ UNCHANGED wrapper_vars
  /\ \/ SolveFails("UNKNOWN")
     \/ Solutions(data) = {} /\ SolveFails("INFEASIBLE")
     \/ \E s \in Solutions(data) : SolveFinds(s[1], s[2])
  /\ UNCHANGED <<data, SCHEDULER_AVAILABLE, xvars, hrvars, model>>

\* FormatResponse counting the rows of the augmented schedule (a faulty variant)
FormatResponse_CountsAugmented ==
  /\ pc = "format"
  /\ UNCHANGED wrapper_vars
  /\ LET schedule_data == FormatSchedule(schedule_df)
         homeroom_data == FormatHomeroom(homeroom_df)
     IN Respond(CreateResponse(TRUE, "Schedule generated successfully", NoError, 200,
                               schedule_data, homeroom_data,
                               Len(extended_schedule), Len(homeroom_data)))
  /\ UNCHANGED <<data, SCHEDULER_AVAILABLE, xvars, hrvars, model, status, xval, hrval,
                 schedule_df, homeroom_df, extended_schedule>>

\* generate_schedule: format_schedule_data and the success response
FormatResponse ==
  /\ pc = "format"
  /\ UNCHANGED wrapper_vars
  /\ LET schedule_data == FormatSchedule(schedule_df)
         homeroom_data == FormatHomeroom(homeroom_df)
     IN Respond(CreateResponse(TRUE, "Schedule generated successfully", NoError, 200,
                               schedule_data, homeroom_data,
                               Len(schedule_data), Len(homeroom_data)))
  /\ UNCHANGED <<data, SCHEDULER_AVAILABLE, xvars, hrvars, model, status, xval, hrval,
                 schedule_df, homeroom_df, extended_schedule>>

Next ==
  \/ ValidateRequest
  \/ CreateScheduler
  \/ GetModel
  \/ GetSolution
  \/ FormatResponse

Spec == Init /\ [][Next]_vars

\* the same service answering requests of every start_hour
InitView == InitWith(ViewRequests)

SpecView == InitView /\ [][Next]_vars

\* the same service answering requests with an option outside its declared bounds
InitBounds == InitWith(OutOfBoundsRequests)

SpecBounds == InitBounds /\ [][Next]_vars

\* the same service answering requests that carry PE options with PE constraints off
InitPEOff == InitWith(PEOffRequests)

SpecPEOff == InitPEOff /\ [][Next]_vars

\* ----------------------------------------------------------- rate limiter
\* no scheduling request is running
SchedulerIdle ==
  /\ pc = "idle"
  /\ data = None
  /\ SCHEDULER_AVAILABLE = TRUE
  /\ xvars = {}
  /\ hrvars = {}
  /\ model = "None"
  /\ status = "NONE"
  /\ xval = {}
  /\ hrval = {}
  /\ schedule_df = None
  /\ homeroom_df = None
  /\ extended_schedule = None
  /\ response = NoResponse

\* RateLimiter.__init__
NewRateLimiter ==
  /\ max_calls \in 0..MaxCallsLimit
  /\ time_window \in 1..MaxWindow
  /\ calls = <<>>
  /\ now = 0
  /\ call_log = <<>>
  /\ answer = "NONE"

\* InWindow keeping a call that is exactly time_window old (a faulty variant)
InWindow_Inclusive(call_time) == now - call_time <= time_window

\* can_proceed: now - call_time < self.time_window
InWindow(call_time) == now - call_time < time_window

\* RateLimiter.can_proceed
CanProceed ==
  /\ calls' = SelectSeq(calls, InWindow)
  /\ answer' = IF Len(calls') < max_calls THEN "True" ELSE "False"
  /\ UNCHANGED <<max_calls, time_window, now, call_log>>
  /\ UNCHANGED <<call_vars, scheduler_vars>>

\* RateLimiter.record_call
RecordCall ==
  /\ Len(call_log) < MaxRecordedCalls
  /\ calls' = Append(calls, now)
  /\ call_log' = Append(call_log, now)
  /\ answer' = "NONE"
  /\ UNCHANGED <<max_calls, time_window, now>>
  /\ UNCHANGED <<call_vars, scheduler_vars>>

\* time.time() moves on between two operations
Tick ==
  /\ now < MaxTime
  /\ now' = now + 1
  /\ answer' = "NONE"
  /\ UNCHANGED <<max_calls, time_window, calls, call_log>>
  /\ UNCHANGED <<call_vars, scheduler_vars>>

\* no chat_with_gpt call is running
NoChat ==
  /\ attempt = 0
  /\ api_calls = 0
  /\ api_failures = 0
  /\ last_error = "None"
  /\ api_response = "None"
  /\ wpc = "idle"
  /\ chat_result = "None"

InitRateLimiter ==
  /\ SchedulerIdle
  /\ NewRateLimiter
  /\ max_retries = 0
  /\ NoChat

NextRateLimiter ==
  \/ CanProceed
  \/ RecordCall
  \/ Tick

SpecRateLimiter == InitRateLimiter /\ [][NextRateLimiter]_vars

\* ------------------------------------------------------------ chat wrapper
DEFAULT_MAX_CALLS == 10
DEFAULT_TIME_WINDOW == 60
RETRY_DELAY == 1

\* the exceptions _handle_api_error tells apart, by the text it looks for
ErrorKinds == {"rate limit", "quota", "timeout", "authentication", "other"}

\* _handle_api_error
HandleApiError(kind) ==
  CASE kind = "rate limit" ->
         "I'm currently experiencing high demand. Please try again in a moment."
    [] kind = "quota" -> "Service temporarily unavailable due to quota limits."
    [] kind = "timeout" -> "Request timed out. Please try again."
    [] kind = "authentication" -> "Service configuration error. Please contact support."
    [] OTHER -> "I encountered an unexpected error. Please try again later."

\* RetryAllowed with "<=" in place of "<" (a faulty variant)
RetryAllowed_OffByOne(n) == n <= max_retries

\* _make_api_call: attempt < current_config.max_retries
RetryAllowed(n) == n < max_retries

\* ChatGPTWrapper.__init__ with RateLimiter(), some time into the life of the wrapper:
\* earlier chats left prior recorded calls behind
InitChat ==
  /\ SchedulerIdle
  /\ max_calls = DEFAULT_MAX_CALLS
  /\ time_window = DEFAULT_TIME_WINDOW
  /\ \E prior \in {0, DEFAULT_MAX_CALLS - 1, DEFAULT_MAX_CALLS} :
       calls = [i \in 1..prior |-> 0] /\ call_log = calls
  /\ now = 0
  /\ answer = "NONE"
  /\ max_retries \in 0..MaxRetries
  /\ NoChat

\* chat_with_gpt up to the call of _make_api_call; _validate_inputs may raise, which
\* chat_with_gpt re-raises as RuntimeError
ChatWithGpt ==
  /\ wpc = "idle"
  /\ \/ wpc' = "calling" /\ attempt' = 1
     \/ wpc' = "raised" /\ UNCHANGED attempt
  /\ UNCHANGED <<max_retries, api_calls, api_failures, last_error, api_response,
                 chat_result>>
  /\ UNCHANGED <<limiter_vars, scheduler_vars>>

\* one activation of _make_api_call: the rate limiter, the API call, and the except
\* clause when the call raised (an empty reply raises ValueError, an error of kind other)
MakeApiCall ==
  /\ wpc = "calling"
  /\ LET kept == SelectSeq(calls, InWindow)
         wait == IF Len(kept) < max_calls THEN 0 ELSE 2 * RETRY_DELAY
         called_at == now + wait
     IN /\ calls' = Append(kept, called_at)
        /\ call_log' = Append(call_log, called_at)
        /\ answer' = "NONE"
        /\ api_calls' = api_calls + 1
        /\ \/ /\ api_response' = "content"
              /\ wpc' = "returning"
              /\ now' = called_at
              /\ UNCHANGED <<attempt, api_failures, last_error>>
           \/ \E kind \in ErrorKinds :
                /\ api_failures' = api_failures + 1
                /\ last_error' = kind
                /\ IF RetryAllowed(attempt)
                     THEN /\ now' = called_at + RETRY_DELAY * attempt
                          /\ attempt' = attempt + 1
                          /\ UNCHANGED <<api_response, wpc>>
                     ELSE /\ now' = called_at
                          /\ api_response' = HandleApiError(kind)
                          /\ wpc' = "returning"
                          /\ UNCHANGED attempt
  /\ UNCHANGED <<max_calls, time_window, max_retries, chat_result>>
  /\ UNCHANGED scheduler_vars

\* chat_with_gpt: return response
ChatReturn ==
  /\ wpc = "returning"
  /\ chat_result' = api_response
  /\ wpc' = "returned"
  /\ UNCHANGED <<max_retries, attempt, api_calls, api_failures, last_error, api_response>>
  /\ UNCHANGED <<limiter_vars, scheduler_vars>>

NextChat ==
  \/ ChatWithGpt
  \/ MakeApiCall
  \/ ChatReturn

\* chat_with_gpt runs to its end: nothing in it waits for anything but time.sleep
SpecChat == InitChat /\ [][NextChat]_vars /\ WF_vars(NextChat)

\* ================================================================ claims
\* a reported success: the response was sent and says success
Success == pc = "done" /\ response.success

\* positions of the rows of a table for (g, d, h)
RowsAt(df, g, d, h) ==
  {i \in 1..Len(df) : df[i].Grade = g /\ df[i].Day = d /\ df[i].Hour = h}

\* positions of the rows of a table for (t, d, h)
TeacherRowsAt(df, t, d, h) ==
  {i \in 1..Len(df) : df[i].Teacher = t /\ df[i].Day = d /\ df[i].Hour = h}

\* C1 Full coverage: on every reported success, every (grade, day, teaching hour)
\* has exactly one teaching record in the teaching schedule.
C1_FullCoverage ==
  Success =>
    \A g \in GradeSet(data), d \in 1..data.days_per_week, h \in 1..data.n_hours :
      h # data.lunch_hour => Cardinality(RowsAt(schedule_df, g, d, h)) = 1

C1_Witness ==
  /\ Success
  /\ Len(data.grades) = 2
  /\ data.n_hours = 4
  /\ data.lunch_hour = 3
  /\ Len(schedule_df) = 6

\* C2 Single-room teacher: on every reported success, every (teacher, day, teaching
\* hour) has at most one teaching record.
C2_SingleRoom ==
  Success =>
    \A t \in TeacherSet(data), d \in 1..data.days_per_week, h \in 1..data.n_hours :
      h # data.lunch_hour => Cardinality(TeacherRowsAt(schedule_df, t, d, h)) <= 1

C2_Witness ==
  /\ Success
  /\ Len(data.grades) = 2
  /\ \E d \in 1..data.days_per_week, h \in 1..data.n_hours :
       \A t \in TeacherSet(data) : Cardinality(TeacherRowsAt(schedule_df, t, d, h)) = 1

\* C3 No back-to-back: on every reported success, no (teacher, grade, day) has
\* teaching records at both h and h + 1 when neither hour is the lunch hour.
C3_NoBackToBack ==
  Success =>
    \A t \in TeacherSet(data), g \in GradeSet(data), d \in 1..data.days_per_week,
       h \in 1..(data.n_hours - 1) :
      (h # data.lunch_hour /\ h + 1 # data.lunch_hour) =>
        ~(HasRow(schedule_df, t, g, d, h) /\ HasRow(schedule_df, t, g, d, h + 1))

\* a success with an adjacent pair of teaching hours, in which one teacher has the
\* same grade right before and right after lunch
C3_Witness ==
  /\ Success
  /\ data.lunch_hour = 2
  /\ data.n_hours = 4
  /\ \E t \in TeacherSet(data), g \in GradeSet(data), d \in 1..data.days_per_week :
       HasRow(schedule_df, t, g, d, 1) /\ HasRow(schedule_df, t, g, d, 3)

\* C4 No lunch-period teaching: no x variable exists at the lunch hour, and no
\* teaching record of a reported success is at the lunch hour.
C4_NoLunchTeaching ==
  /\ \A k \in xvars : k[4] # data.lunch_hour
  /\ Success => \A i \in 1..Len(schedule_df) : schedule_df[i].Hour # data.lunch_hour

C4_Witness ==
  /\ Success
  /\ data.lunch_hour \in 2..(data.n_hours - 1)
  /\ xvars # {}
  /\ Len(schedule_df) > 0

\* the anchor set of a homeroom mode: {} (mode 0), {n_hours} (mode 1), {1, n_hours} (mode 2)
AnchorSet(p) ==
  IF p.homeroom_mode = 2 THEN {1, p.n_hours}
  ELSE IF p.homeroom_mode = 1 THEN {p.n_hours}
  ELSE {}

\* (t, g) is a record of the reported homeroom table
InHomeroomTable(t, g) ==
  \E j \in 1..Len(homeroom_df) : homeroom_df[j].Teacher = t /\ homeroom_df[j].Grade = g

\* C5 Homeroom anchoring: on every reported success with homeroom_mode >= 1, the
\* teacher of the teaching record of every (grade, day) at h = n_hours is listed as a
\* homeroom teacher of that grade in the reported homeroom table; in mode 2 also at h = 1.
C5_HomeroomAnchoring ==
  (Success /\ data.homeroom_mode >= 1) =>
    \A g \in GradeSet(data), d \in 1..data.days_per_week :
      /\ \A i \in RowsAt(schedule_df, g, d, data.n_hours) :
           InHomeroomTable(schedule_df[i].Teacher, g)
      /\ data.homeroom_mode = 2 =>
           \A i \in RowsAt(schedule_df, g, d, 1) :
             InHomeroomTable(schedule_df[i].Teacher, g)

\* C6 Homeroom table shape: on every reported success with homeroom_mode >= 1, the
\* reported homeroom table lists at least one teacher for every grade, lists every
\* teacher for at most one grade, and never contains pe_teacher.
C6_HomeroomTableShape ==
  (Success /\ data.homeroom_mode >= 1) =>
    /\ \A g \in GradeSet(data) : \E j \in 1..Len(homeroom_df) : homeroom_df[j].Grade = g
    /\ \A t \in TeacherSet(data) :
         Cardinality({j \in 1..Len(homeroom_df) : homeroom_df[j].Teacher = t}) <= 1
    /\ \A j \in 1..Len(homeroom_df) : homeroom_df[j].Teacher # data.pe_teacher

\* positions of the teaching records of pe_teacher
PERows == {i \in 1..Len(schedule_df) : schedule_df[i].Teacher = data.pe_teacher}

\* C7 PE load: whenever enable_pe_constraints is true, for every n_pe_periods >= 0,
\* on every reported success pe_teacher has exactly n_pe_periods teaching records and
\* none for a grade of non_pe_grades.
C7_PELoad ==
  (Success /\ data.enable_pe_constraints) =>
    /\ Cardinality(PERows) = data.n_pe_periods
    /\ \A i \in PERows : schedule_df[i].Grade \notin NonPEGrades(data)

\* C8 PE concentration: whenever PE constraints are enabled, on every reported success
\* pe_teacher teaches each grade of pe_grades exactly once in the week, and every
\* teaching record of pe_teacher is on pe_day.
C8_PEConcentration ==
  (Success /\ data.enable_pe_constraints) =>
    /\ \A g \in data.pe_grades :
         Cardinality({i \in PERows : schedule_df[i].Grade = g}) = 1
    /\ \A i \in PERows : schedule_df[i].Day = data.pe_day

\* C9 Anchor coverage after augmentation: on every reported success, for every
\* homeroom record (t, g), every day and every hour of the anchor set of the mode,
\* the augmented schedule has a row for (t, g, d, h).
C9_AnchorCoverage ==
  Success =>
    \A j \in 1..Len(homeroom_df), d \in 1..data.days_per_week, h \in AnchorSet(data) :
      HasRow(extended_schedule, homeroom_df[j].Teacher, homeroom_df[j].Grade, d, h)

\* C10 Augmentation frame: on every reported success, every row of the augmented
\* schedule at an hour outside the anchor set of the mode is a row of the teaching
\* schedule, and every row of the teaching schedule is in the augmented schedule.
C10_AugmentationFrame ==
  Success =>
    /\ \A i \in 1..Len(extended_schedule) :
         extended_schedule[i].Hour \notin AnchorSet(data) =>
           HasRow(schedule_df, extended_schedule[i].Teacher, extended_schedule[i].Grade,
                  extended_schedule[i].Day, extended_schedule[i].Hour)
    /\ \A i \in 1..Len(schedule_df) :
         HasRow(extended_schedule, schedule_df[i].Teacher, schedule_df[i].Grade,
                schedule_df[i].Day, schedule_df[i].Hour)

\* the extended schedule was produced by the augmentation step
Augmented == pc \in {"format", "done"} /\ extended_schedule # None

\* the rows of the extended schedule that the augmentation step inserted
SyntheticPositions == (Len(schedule_df) + 1)..Len(extended_schedule)

\* C11 Non-duplication: a synthetic row is never inserted for a (teacher, grade, day,
\* hour) that has a teaching row, and the augmented schedule never holds two rows with
\* the same (teacher, grade, day, hour).
C11_NonDuplication ==
  Augmented =>
    /\ \A i \in SyntheticPositions :
         LET r == extended_schedule[i]
         IN ~HasRow(schedule_df, r.Teacher, r.Grade, r.Day, r.Hour)
    /\ \A i, j \in 1..Len(extended_schedule) :
         (/\ extended_schedule[i].Teacher = extended_schedule[j].Teacher
          /\ extended_schedule[i].Grade = extended_schedule[j].Grade
          /\ extended_schedule[i].Day = extended_schedule[j].Day
          /\ extended_schedule[i].Hour = extended_schedule[j].Hour) => i = j

\* a success in mode 2 where a homeroom teacher teaches the own grade in the first
\* period, so the duty at hour 1 needed no row, while other duties got one
C11_Witness ==
  /\ Success
  /\ data.homeroom_mode = 2
  /\ SyntheticPositions # {}
  /\ \E i \in 1..Len(schedule_df) :
       /\ schedule_df[i].Hour = FIRST_CHECK_HOUR
       /\ InHomeroomTable(schedule_df[i].Teacher, schedule_df[i].Grade)
       /\ schedule_df[i].Teacher # HARDCODED_PE_TEACHER

\* C12 Homeroom flagging: on every reported success, a teaching row of the augmented
\* schedule is flagged "Yes" if and only if its hour is in the anchor set of the
\* request's homeroom_mode and its (teacher, grade) is a homeroom record; so in mode 1
\* no first-period row is flagged "Yes" unless the first period is also the last.
C12_HomeroomFlagging ==
  Success =>
    \A i \in 1..Len(schedule_df) :
      LET r == extended_schedule[i]
      IN r.IsHomeroom = "Yes" <=>
           (r.Hour \in AnchorSet(data) /\ InHomeroomTable(r.Teacher, r.Grade))

\* the homeroom records the augmentation step of this request ran with
HomeroomAssignments == HomeroomRows(data, hrval, HARDCODED_PE_TEACHER)

\* C13 Idempotent augmentation: on every reported success, running the augmentation
\* step again on the augmented schedule, with the same homeroom records and mode, gives
\* the same rows with the same IsHomeroom flags.
C13_AugmentIdempotent ==
  Success =>
    /\ ~AugmentRaises(data, HomeroomAssignments, extended_schedule)
    /\ Augment(data, HomeroomAssignments, extended_schedule) = extended_schedule

\* a success whose augmented schedule holds inserted rows and teaching rows of both flags
C13_Witness ==
  /\ Success
  /\ SyntheticPositions # {}
  /\ \E i, j \in 1..Len(schedule_df) :
       extended_schedule[i].IsHomeroom = "Yes" /\ extended_schedule[j].IsHomeroom = "No"

\* C14 Response from the augmented schedule: on every reported success the response has
\* as many schedule rows as teaching records plus inserted homeroom-presence rows, and
\* every inserted row appears among the response rows.
C14_ResponseFromAugmented ==
  Success =>
    /\ Len(response.schedule) = Len(schedule_df) + Cardinality(SyntheticPositions)
    /\ \A i \in SyntheticPositions :
         \E j \in 1..Len(response.schedule) :
           /\ response.schedule[j].teacher = extended_schedule[i].Teacher
           /\ response.schedule[j].grade = extended_schedule[i].Grade
           /\ response.schedule[j].day = extended_schedule[i].DayName
           /\ response.schedule[j].period = extended_schedule[i].Hour

\* C15 Mode 0 succeeds: when the solver finds an assignment for a request with
\* homeroom_mode = 0 and PE constraints disabled, no hr variables were created, the
\* response is a success and its homeroom list is empty.
C15_ModeZeroSucceeds ==
  (/\ pc = "done"
   /\ data.homeroom_mode = 0
   /\ ~data.enable_pe_constraints
   /\ status = "OPTIMAL") =>
    /\ hrvars = {}
    /\ response.success
    /\ response.homeroom = <<>>

\* the request's options are within the declared bounds and passed the validator
ValidatedParameters ==
  ScheduleRequestBounds(data) /\ ValidationError(data) = ""

\* C16 Assignment count: on every reported success with validated parameters, the
\* response's total_assignments is the number of teaching records, and that number is
\* |grades| * days_per_week * (n_hours - 1).
C16_AssignmentCount ==
  (Success /\ ValidatedParameters) =>
    /\ response.total_assignments = Cardinality(xval)
    /\ response.total_assignments = Len(schedule_df)
    /\ response.total_assignments =
         Len(data.grades) * data.days_per_week * (data.n_hours - 1)

\* a success for one grade on two days of four hours: 1 * 2 * (4 - 1) = 6 records
C16_Witness ==
  /\ Success
  /\ ValidatedParameters
  /\ Len(data.grades) = 1 /\ data.days_per_week = 2 /\ data.n_hours = 4
  /\ response.total_assignments = 6

\* the number written by a decimal digit character
DigitValue(c) == (CHOOSE i \in 1..Len(Digits) : Digits[i] = c) - 1

\* the two characters of label from position i are digits writing the number n
TwoDigitsAt(label, i, n) ==
  /\ \E v \in 1..Len(Digits) : Digits[v] = label[i]
  /\ \E v \in 1..Len(Digits) : Digits[v] = label[i + 1]
  /\ 10 * DigitValue(label[i]) + DigitValue(label[i + 1]) = n

\* C17 View rows: every schedule row of a success response has duration 1, subject equal
\* to grade, and is the view of a teaching record (t, g, d, h): period is h, timeslot is
\* "SS:00-EE:00" with SS = start_hour + h - 1 and EE = SS + 1 written with two digits,
\* and time is the part of timeslot left of "-".
C17_ViewRows ==
  Success =>
    \A j \in 1..Len(response.schedule) :
      LET v == response.schedule[j]
          ts == v.timeslot
      IN /\ v.duration = 1
         /\ v.subject = v.grade
         /\ \E k \in xval :
              /\ v.teacher = k[1] /\ v.grade = k[2]
              /\ v.day = DayNameList[k[3]] /\ v.period = k[4]
         /\ Len(ts) = 11
         /\ TwoDigitsAt(ts, 1, data.start_hour + v.period - 1)
         /\ SubSeq(ts, 3, 6) = <<":", "0", "0", "-">>
         /\ TwoDigitsAt(ts, 7, data.start_hour + v.period)
         /\ SubSeq(ts, 9, 11) = <<":", "0", "0">>
         /\ v.time = SubSeq(ts, 1, 5)

\* a success with start_hour 9 whose response has the rows of hours 1 and 3, labelled
\* "09:00-10:00" (a padded start) and "11:00-12:00"
C17_Witness ==
  /\ Success
  /\ data.start_hour = 9
  /\ \E i, j \in 1..Len(response.schedule) :
       /\ response.schedule[i].period = 1
       /\ response.schedule[i].time = <<"0", "9", ":", "0", "0">>
       /\ response.schedule[j].period = 3
       /\ response.schedule[j].timeslot =
            <<"1", "1", ":", "0", "0", "-", "1", "2", ":", "0", "0">>

\* the response of a request that validation rejected
IsValidationError(r) == ~r.success /\ r.message = "Validation failed" /\ r.status_code = 400

\* C18 Numeric bound validation: a request with pe_day outside 1..7, n_pe_periods < 0,
\* start_hour outside 0..23, n_hours outside 1..12, days_per_week outside 1..7,
\* lunch_hour outside 1..n_hours or homeroom_mode outside 0..2 never gets a model built
\* and is answered with the validation error.
C18_NumericBounds ==
  (~ScheduleRequestBounds(data) \/ data.lunch_hour > data.n_hours) =>
    /\ model = "None"
    /\ xvars = {}
    /\ pc = "done" => IsValidationError(response)

\* C19 Cross-field validation: a request with pe_day > days_per_week, or with PE enabled
\* and a pe_teacher outside T1..Tn_teachers or a pe_grades that is not a subset of
\* grades, never gets a model built and is answered with the validation error.
C19_CrossFieldValidation ==
  (\/ data.pe_day > data.days_per_week
   \/ data.enable_pe_constraints /\ data.pe_teacher \notin TeacherSet(data)
   \/ data.enable_pe_constraints /\ ~(data.pe_grades \subseteq GradeSet(data))) =>
    /\ model = "None"
    /\ xvars = {}
    /\ pc = "done" => IsValidationError(response)

\* C20 Atomic outcome: every response is a success without an error or an error without
\* success, and an error response (validation failure, no solution, scheduler
\* unavailable, internal failure) carries neither schedule rows nor homeroom data.
C20_AtomicOutcome ==
  pc = "done" =>
    /\ response.success <=> response.error = NoError
    /\ response.success => response.schedule # None /\ response.homeroom # None
    /\ ~response.success => response.schedule = None /\ response.homeroom = None

\* an error response sent after get_solution had produced the teaching table
C20_Witness ==
  /\ pc = "done"
  /\ ~response.success
  /\ response.error # NoError
  /\ schedule_df # None
  /\ Len(schedule_df) > 0

\* the solver ended without an assignment
NonFeasibleStatus == status \in {"INFEASIBLE", "UNKNOWN"}

\* the response of a request whose get_solution returned False
IsNoSolutionError(r) == ~r.success /\ r.message = "No solution found" /\ r.status_code = 422

\* C21 Non-feasible solver outcome: whenever the solver status is INFEASIBLE or UNKNOWN,
\* the request has ended with the "No solution found" error in the very step that solved
\* (no second solve), and neither schedule_df nor homeroom_df was produced.
C21_NonFeasibleOutcome ==
  NonFeasibleStatus =>
    /\ pc = "done"
    /\ IsNoSolutionError(response)
    /\ schedule_df = None
    /\ homeroom_df = None
    /\ xval = {}

\* the solver gave up on an instance that has a satisfying assignment
C21_Witness ==
  /\ pc = "done"
  /\ status = "UNKNOWN"
  /\ IsNoSolutionError(response)
  /\ model = "built"
  /\ data.homeroom_mode = 1
  /\ data.n_teachers >= Len(data.grades)

\* the request is within the declared bounds, passes the validator, has PE constraints
\* off, and the scheduler module was available to it
PlainValidRequest ==
  /\ ValidatedParameters
  /\ ~data.enable_pe_constraints
  /\ SCHEDULER_AVAILABLE

\* C22 Forced infeasibility: for a request with homeroom_mode > 0 and fewer teachers than
\* grades the constraint model has no satisfying assignment, and the request ends with
\* the "No solution found" error, never with a success.
C22_ForcedInfeasibility ==
  (/\ PlainValidRequest
   /\ data.homeroom_mode > 0
   /\ data.n_teachers < Len(data.grades)
   /\ pc = "done") =>
    /\ Solutions(data) = {}
    /\ ~response.success
    /\ IsNoSolutionError(response)

\* C23 Lunch at the boundary: for a valid request with lunch_hour = 1 or lunch_hour =
\* n_hours, in every homeroom_mode, building the model raises nothing (every posted
\* constraint, the no-consecutive pairs included, reads variables of teaching hours
\* only), and a reported success has no record at lunch_hour.
C23_LunchAtBoundary ==
  (/\ PlainValidRequest
   /\ data.lunch_hour \in {1, data.n_hours}
   /\ pc \in {"solve", "format", "done"}) =>
    /\ ~BuildRaises(data)
    /\ model = "built"
    /\ pc = "done" => response.message # "Schedule generation failed"
    /\ Success => \A i \in 1..Len(schedule_df) : schedule_df[i].Hour # data.lunch_hour

\* C24 Empty grid: a request with n_hours = 1 and lunch_hour = 1 gets a model without x
\* variables and ends with the "No solution found" error: never with a success and
\* never with an internal error.
C24_EmptyGrid ==
  (/\ PlainValidRequest
   /\ data.n_hours = 1
   /\ data.lunch_hour = 1
   /\ pc = "done") =>
    /\ xvars = {}
    /\ ~response.success
    /\ IsNoSolutionError(response)

\* the request with its PE options replaced by those of DEFAULT_SCHEDULE_PARAMS
WithDefaultPE(d) ==
  [d EXCEPT !.pe_teacher = HARDCODED_PE_TEACHER, !.pe_grades = DEFAULT_PE_GRADES,
            !.pe_day = DEFAULT_PE_DAY, !.n_pe_periods = DEFAULT_N_PE_PERIODS]

\* C25 PE disabled ignores PE options: with enable_pe_constraints = false a request reads
\* the same variables while posting constraints, and has the same satisfying
\* assignments, as the request that differs from it in pe_teacher, pe_grades, pe_day
\* and n_pe_periods only (compared to the one with the default PE options, hence to
\* every other); and the assignment the solver returned is one of those.
C25_PEOffIgnoresPEOptions ==
  ~data.enable_pe_constraints =>
    /\ ReferencedKeys(data) = ReferencedKeys(WithDefaultPE(data))
    /\ BuildRaises(data) = BuildRaises(WithDefaultPE(data))
    /\ pc = "solve" => Solutions(data) = Solutions(WithDefaultPE(data))
    /\ status = "OPTIMAL" => <<xval, hrval>> \in Solutions(WithDefaultPE(data))

\* a success with PE off where pe_teacher, one of the teachers, teaches a grade outside
\* pe_grades on another day than pe_day and with another load than n_pe_periods
C25_Witness ==
  /\ Success
  /\ ~data.enable_pe_constraints
  /\ data.pe_teacher \in TeacherSet(data)
  /\ data.n_pe_periods > 0
  /\ Cardinality({k \in xval : k[1] = data.pe_teacher}) # data.n_pe_periods
  /\ \E k \in xval :
       k[1] = data.pe_teacher /\ k[2] \notin data.pe_grades /\ k[3] # data.pe_day

\* the stages of generate_schedule in program order; get_solution solves, extracts and
\* augments in one call
StageRank(stage) ==
  CASE stage = "validate" -> 1
    [] stage = "scheduler" -> 2
    [] stage = "model" -> 3
    [] stage = "solve" -> 4
    [] stage = "format" -> 5
    [] stage = "done" -> 6

\* C28 Stage ordering: every step of a request runs the current stage and then moves to
\* the next stage or ends the request, so stages run in order and at most once; a
\* response is written only by the step that ends the request; a validation failure ends
\* it with no variable, model or solver status; variables and model change in the build
\* stage only, the status and the tables in the solve stage only, the tables only after
\* an OPTIMAL status and the augmented schedule only with both tables; a success is
\* written by the shaping stage only.
C28_StageOrdering ==
  [][/\ pc # "done"
     /\ pc' = "done" \/ StageRank(pc') = StageRank(pc) + 1
     /\ response' # response => pc' = "done"
     /\ (pc = "validate" /\ pc' = "done") =>
          /\ IsValidationError(response')
          /\ xvars' = {} /\ hrvars' = {} /\ model' = "None" /\ status' = "NONE"
     /\ (xvars' # xvars \/ hrvars' # hrvars \/ model' # model) => pc = "model"
     /\ status' # status => pc = "solve"
     /\ schedule_df' # schedule_df => pc = "solve" /\ status' = "OPTIMAL"
     /\ homeroom_df' # homeroom_df => pc = "solve" /\ schedule_df' # None
     /\ extended_schedule' # extended_schedule =>
          pc = "solve" /\ schedule_df' # None /\ homeroom_df' # None
     /\ response'.success => pc = "format" /\ extended_schedule # None
    ]_vars

\* a request that went through every stage
C28_Witness ==
  /\ Success
  /\ model = "built"
  /\ status = "OPTIMAL"
  /\ Augmented
  /\ Len(response.schedule) > 0

\* C29 Error classification: the "No solution found" error is sent only when the solver
\* returned INFEASIBLE or UNKNOWN; a request that failed while building the model or
\* after the solver returned an assignment is answered with another error.
C29_ErrorClassification ==
  (pc = "done" /\ IsNoSolutionError(response)) => NonFeasibleStatus

\* the pairs the augmentation step used, and the pairs of the reported homeroom table
AugmenterPairs == {<<HomeroomAssignments[i].Teacher, HomeroomAssignments[i].Grade>> :
                     i \in 1..Len(HomeroomAssignments)}
ReportedPairs == {<<homeroom_df[i].Teacher, homeroom_df[i].Grade>> :
                    i \in 1..Len(homeroom_df)}

\* C30 Single homeroom relation: on every reported success the pairs the augmentation
\* step uses are the pairs of the reported homeroom table, whatever pe_teacher is; no row
\* of the augmented schedule for pe_teacher is an inserted row or is flagged "Yes".
C30_SingleHomeroomRelation ==
  Success =>
    /\ AugmenterPairs = ReportedPairs
    /\ \A i \in 1..Len(extended_schedule) :
         extended_schedule[i].Teacher = data.pe_teacher =>
           /\ i \notin SyntheticPositions
           /\ extended_schedule[i].IsHomeroom = "No"

\* how many of all recorded calls are less than time_window old
RecordedInWindow ==
  Cardinality({i \in 1..Len(call_log) : now - call_log[i] < time_window})

\* C26 RateLimiter: can_proceed() returns true exactly when fewer than max_calls of the
\* calls recorded so far lie within the last time_window seconds; so it returns false
\* after max_calls recorded calls within the window and true again once enough of them
\* have aged out.
C26_RateLimiter ==
  answer # "NONE" => (answer = "True" <=> RecordedInWindow < max_calls)

\* can_proceed() returns true again: more than max_calls calls were recorded, max_calls of
\* them at one instant, and enough have aged out of the window since
C26_Witness ==
  /\ answer = "True"
  /\ max_calls = 2
  /\ Len(call_log) = 3
  /\ call_log[1] = call_log[2]
  /\ RecordedInWindow = 1

\* the number of attempts _make_api_call makes when every call fails
AttemptLimit == IF max_retries > 1 THEN max_retries ELSE 1

\* every API call of the running chat_with_gpt failed
EveryCallFailed == api_calls > 0 /\ api_failures = api_calls

\* C27 Bounded retry, as stated: when every API call fails, _make_api_call makes at most
\* max_retries attempts, numbered 1..max_retries, and chat_with_gpt returns the fallback
\* message of the last error.
C27_BoundedRetry ==
  EveryCallFailed =>
    /\ api_calls <= max_retries
    /\ attempt \in 1..max_retries
    /\ wpc = "returned" => chat_result = HandleApiError(last_error)

\* C27 Bounded retry, amended: a chat_with_gpt that reaches _make_api_call returns after
\* at most max(1, max_retries) API calls; when every call failed it made exactly that
\* many and returns the fallback message of the last error instead of raising.
C27_BoundedRetryAmended ==
  (wpc = "calling") ~>
    (/\ wpc = "returned"
     /\ api_calls <= AttemptLimit
     /\ attempt <= AttemptLimit
     /\ EveryCallFailed =>
          /\ api_calls = AttemptLimit
          /\ chat_result = HandleApiError(last_error))

\* three attempts, all failed, the last with a timeout: the caller got the timeout message
C27_Witness ==
  /\ wpc = "returned"
  /\ max_retries = 3
  /\ attempt = 3
  /\ api_calls = 3
  /\ api_failures = 3
  /\ last_error = "timeout"
  /\ chat_result = "Request timed out. Please try again."

====
